---------------------------- MODULE Spec2Model ----------------------------
(***************************************************************************)
(* Model of spam-data-preparation.ipynb: the text normalizer               *)
(* email_body_to_words, the corpus walk tokenize_emails_in_folders and the *)
(* vocabulary construction (vocab_set, vocab).                             *)
(*                                                                         *)
(* A Python str is a sequence of character codes (ASCII code points), so   *)
(* that character classes, case conversion and the codepoint order used by *)
(* sorted() are computed rather than assumed.  The quoted text of every    *)
(* literal is given in the comment beside it.  Only ASCII text is covered:  *)
(* the Unicode letters and digits that \w, \d and isdigit also accept are   *)
(* outside the inputs tried.                                                *)
(***************************************************************************)
EXTENDS Integers, Sequences, FiniteSets, TLC

VARIABLES
    stopwords,              \* the stopword collection handed to the functions
    stemmer,                \* the stemmer handed to the functions
    body,                   \* argument of a direct call of email_body_to_words
    outcome,                \* of that call: "pending", "returned" or "raised"
    words,                  \* the list that call returned
    fs,                     \* folder name -> set of directory entries
    pc,                     \* position in the notebook
    folder_idx,             \* tokenize_emails_in_folders: index of the current folder
    email_filenames,        \* tokenize_emails_in_folders: the current folder's list
    file_idx,               \* tokenize_emails_in_folders: next index in that list
    emails,                 \* tokenize_emails_in_folders: the accumulator
    opened,                 \* paths opened so far, in order (history of the walk)
    emails_tokenized_ham,
    emails_tokenized_spam,
    vocab_set,
    vocab

vars == <<stopwords, stemmer, body, outcome, words, fs, pc, folder_idx,
          email_filenames, file_idx, emails, opened, emails_tokenized_ham,
          emails_tokenized_spam, vocab_set, vocab>>

-----------------------------------------------------------------------------
(* Characters and strings *)

IsDigit(c) == c \in 48..57                     \* "0".."9": \d, str.isdigit
IsLowerAZ(c) == c \in 97..122                  \* "a".."z"
IsUpperAZ(c) == c \in 65..90                   \* "A".."Z"
IsAlnum(c) == IsDigit(c) \/ IsLowerAZ(c) \/ IsUpperAZ(c)
IsWordChar(c) == IsAlnum(c) \/ c = 95          \* \w: alphanumeric or "_"
IsSpace(c) == c \in (9..13) \cup (28..32)      \* str.isspace

\* str.lower() of one character and of a string
LowerChar(c) == IF IsUpperAZ(c) THEN c + 32 ELSE c
Lower(s) == [i \in 1..Len(s) |-> LowerChar(s[i])]

\* one character of the URL tail: [a-zA-Z] | [0-9] | [$-_@.&+] | [!*\(\),];
\* "$-_" is the range "$" (36) to "_" (95).  The last alternative, "%" and two
\* hex digits, matches only characters that the others match one at a time.
IsUrlChar(c) ==
    \/ IsLowerAZ(c) \/ IsUpperAZ(c)
    \/ IsDigit(c)
    \/ c \in 36..95 \/ c \in {64, 46, 38, 43}
    \/ c \in {33, 42, 40, 41, 44}

IsEmailLocal(c) == IsAlnum(c) \/ c \in {95, 46, 43, 45}     \* [a-zA-Z0-9_.+-]
IsEmailHost(c) == IsAlnum(c) \/ c = 45                      \* [a-zA-Z0-9-]
IsEmailTail(c) == IsAlnum(c) \/ c \in {45, 46}              \* [a-zA-Z0-9-.]

IsHexLower(c) == IsDigit(c) \/ c \in 97..102                \* [0-9a-f]

\* the character classes that the patterns, strip and split repeat
InClass(P, c) ==
    CASE P = "url" -> IsUrlChar(c)
      [] P = "email_local" -> IsEmailLocal(c)
      [] P = "email_host" -> IsEmailHost(c)
      [] P = "email_tail" -> IsEmailTail(c)
      [] P = "digit" -> IsDigit(c)                 \* \d
      [] P = "non_word" -> ~IsWordChar(c)          \* \W
      [] P = "space" -> IsSpace(c)
      [] P = "non_space" -> ~IsSpace(c)

\* whether the literal lit occurs in text at index i
HasAt(text, i, lit) ==
    /\ i + Len(lit) - 1 <= Len(text)
    /\ \A d \in 1..Len(lit) : text[i + d - 1] = lit[d]

\* the first index j >= i with text[j] outside the class P (Len(text)+1 if none):
\* the end of a greedy P+ or P* started at i
RunEnd(P, text, i) ==
    IF i > Len(text) THEN i
    ELSE LET out == {j \in i..Len(text) : ~InClass(P, text[j])} \cup {Len(text) + 1}
         IN  CHOOSE j \in out : \A k \in out : j <= k

-----------------------------------------------------------------------------
(* The compiled patterns *)

\* http[s]?://(?:...)+
re_url(text, i) ==
    LET http == <<104, 116, 116, 112>>         \* "http"
        sep  == <<58, 47, 47>>                 \* "://"
        tail == IF HasAt(text, i + 4, <<115>>) /\ HasAt(text, i + 5, sep)
                    THEN i + 8
                ELSE IF HasAt(text, i + 4, sep) THEN i + 7
                ELSE 0
        e    == RunEnd("url", text, tail)
    IN  IF HasAt(text, i, http) /\ tail > 0 /\ e > tail THEN e ELSE 0

\* [a-zA-Z0-9_.+-]+@[a-zA-Z0-9-]+\.[a-zA-Z0-9-.]+
\* "@" and "." lie outside the class repeated before them, so each greedy
\* run must end exactly where the next literal stands.
re_email(text, i) ==
    LET a == RunEnd("email_local", text, i)
        h == RunEnd("email_host", text, a + 1)
        e == RunEnd("email_tail", text, h + 1)
    IN  IF /\ a > i /\ HasAt(text, a, <<64>>)
           /\ h > a + 1 /\ HasAt(text, h, <<46>>)
           /\ e > h + 1
        THEN e ELSE 0

\* [0-9a-f]{32}
re_hash(text, i) ==
    IF i + 31 <= Len(text) /\ \A k \in i..(i + 31) : IsHexLower(text[k])
    THEN i + 32 ELSE 0

\* \b\d+\b : a whole digit run with no word character on either side
re_number(text, i) ==
    LET e == RunEnd("digit", text, i)
    IN  IF /\ e > i
           /\ (i = 1 \/ ~IsWordChar(text[i - 1]))
           /\ (e > Len(text) \/ ~IsWordChar(text[e]))
        THEN e ELSE 0

\* \W+
re_non_word(text, i) ==
    LET e == RunEnd("non_word", text, i) IN IF e > i THEN e ELSE 0

HTTPADDRESS == <<72, 84, 84, 80, 65, 68, 68, 82, 69, 83, 83>>
EMAILADDRESS == <<69, 77, 65, 73, 76, 65, 68, 68, 82, 69, 83, 83>>
HASH == <<72, 65, 83, 72>>
NUMBER == <<78, 85, 77, 66, 69, 82>>

\* where pattern re matches in text at index i: the index after the match,
\* 0 when there is none
MatchAt(re, text, i) ==
    CASE re = "re_url" -> re_url(text, i)
      [] re = "re_email" -> re_email(text, i)
      [] re = "re_hash" -> re_hash(text, i)
      [] re = "re_number" -> re_number(text, i)
      [] re = "re_non_word" -> re_non_word(text, i)

\* where the pattern matches in text: index -> index after the match, or 0
Matches(re, text) == [k \in 1..Len(text) |-> MatchAt(re, text, k)]

\* re.sub(repl, text): scan left to right; copy up to the next match, emit
\* repl for it and go on after it; the matches found do not overlap
RECURSIVE SubFrom(_, _, _, _, _)
SubFrom(M, repl, text, i, acc) ==
    LET rest == {k \in i..Len(text) : M[k] > 0}
        m == CHOOSE k \in rest : \A j \in rest : k <= j
    IN  IF rest = {} THEN acc \o SubSeq(text, i, Len(text))
        ELSE SubFrom(M, repl, text, M[m], acc \o SubSeq(text, i, m - 1) \o repl)

Sub(re, repl, text) == SubFrom(Matches(re, text), repl, text, 1, <<>>)

-----------------------------------------------------------------------------
(* str.strip and str.split *)

\* s.strip(): s without its leading and trailing whitespace
Strip(s) ==
    LET inked == {j \in 1..Len(s) : ~IsSpace(s[j])}
    IN  IF inked = {} THEN <<>>
        ELSE SubSeq(s, CHOOSE a \in inked : \A k \in inked : a <= k,
                       CHOOSE b \in inked : \A k \in inked : k <= b)

\* s.split(): the maximal runs of non-whitespace characters, in order
RECURSIVE SplitFrom(_, _, _)
SplitFrom(s, i, acc) ==
    LET a == RunEnd("space", s, i)
        b == RunEnd("non_space", s, a)
    IN  IF a > Len(s) THEN acc
        ELSE SplitFrom(s, b, Append(acc, SubSeq(s, a, b - 1)))

Split(s) == SplitFrom(s, 1, <<>>)

-----------------------------------------------------------------------------
(* The stemmer and the stopwords: arguments of both functions *)

\* The notebook passes nltk's EnglishStemmer; the functions take any object
\* with a stem method.  The stemmers tried here:
\*   "identity"  returns the word unchanged
\*   "plural"    lower-cases the word and drops a final "s" that does not
\*               follow another "s", as the English stemmer does for plain
\*               plurals ("cats" -> "cat", "httpaddress" unchanged)
\*   "double"    returns the word twice over (a stemmer may lengthen a word)
\*   "strict"    lower-cases the word, and raises on a word holding "_"
HasUnderscore(word) == \E i \in 1..Len(word) : word[i] = 95

StemRaises(st, word) == st = "strict" /\ HasUnderscore(word)

stem(st, word) ==
    CASE st = "identity" -> word
      [] st = "plural" ->
            IF /\ Len(word) > 1
               /\ LowerChar(word[Len(word)]) = 115
               /\ LowerChar(word[Len(word) - 1]) # 115
            THEN Lower(SubSeq(word, 1, Len(word) - 1))
            ELSE Lower(word)
      [] st = "double" -> word \o word
      [] st = "strict" -> Lower(word)

\* a few of nltk's English stopwords: "the", "a", "and"
EnglishStopwords == {<<116, 104, 101>>, <<97>>, <<97, 110, 100>>}

-----------------------------------------------------------------------------
(* email_body_to_words *)

ReplaceUrls(text) == Sub("re_url", HTTPADDRESS, text)
ReplaceEmails(text) == Sub("re_email", EMAILADDRESS, text)
ReplaceHashes(text) == Sub("re_hash", HASH, text)
ReplaceNumbers(text) == Sub("re_number", NUMBER, text)
RemoveNonWord(text) == Sub("re_non_word", <<32>>, text)

\* lower-casing applied after the two substitutions instead of before them
LowerAfterAddresses(b) == Lower(ReplaceEmails(ReplaceUrls(b)))

\* the text after lower-casing and the URL and e-mail substitutions
AfterAddresses(b) == ReplaceEmails(ReplaceUrls(Lower(b)))

\* the two substitutions in the other order
NumbersThenHashes(text) == ReplaceHashes(ReplaceNumbers(text))

\* "Replace hashes." and then "Replace numbers."
HashesThenNumbers(text) == ReplaceNumbers(ReplaceHashes(text))

\* body.split() after all substitutions and strip()
CandidateWords(b) ==
    Split(Strip(RemoveNonWord(HashesThenNumbers(AfterAddresses(b)))))

\* the comprehension without its "if word not in stopwords"
KeepStopwords(cands, sw) == cands

\* the candidate words that pass "if word not in stopwords", in order
NotStopwords(cands, sw) == SelectSeq(cands, LAMBDA w : w \notin sw)

\* the stems with every repeated stem dropped, as a set-based loop would give
StemRemainingUnique(cands, sw, st) ==
    LET rem == NotStopwords(cands, sw)
        all == [i \in 1..Len(rem) |-> stem(st, rem[i])]
        first == {i \in 1..Len(all) : \A j \in 1..(i - 1) : all[j] # all[i]}
    IN  [k \in 1..Cardinality(first) |->
            all[CHOOSE i \in first : Cardinality({j \in first : j <= i}) = k]]

\* [stemmer.stem(word) for word in body.split() if word not in stopwords]
StemRemaining(cands, sw, st) ==
    LET rem == NotStopwords(cands, sw)
    IN  [i \in 1..Len(rem) |-> stem(st, rem[i])]

\* the filter without its length test
NotTechnicalAnyLength(word) ==
    /\ ~HasUnderscore(word)
    /\ ~\E i \in 1..Len(word) : IsDigit(word[i])

\* len(word) <= 20 and not "_" in word and not any(ch.isdigit() for ch in word)
NotTechnical(word) ==
    /\ Len(word) <= 20
    /\ ~HasUnderscore(word)
    /\ ~\E i \in 1..Len(word) : IsDigit(word[i])

\* whether the call raises: stemmer.stem raises on a word it is given
WordsRaises(b, sw, st) ==
    LET rem == NotStopwords(CandidateWords(b), sw)
    IN  \E i \in 1..Len(rem) : StemRaises(st, rem[i])

\* the list the call returns when nothing raises
email_body_to_words(b, sw, st) ==
    SelectSeq(StemRemaining(CandidateWords(b), sw, st), NotTechnical)

-----------------------------------------------------------------------------
(* tokenize_emails_in_folders *)

\* re_email_filename = [0-9a-f]{5}\.[0-9a-f]{32}, applied with .match():
\* anchored at the start of the name only
re_email_filename(name) ==
    /\ Len(name) >= 38
    /\ \A k \in 1..5 : IsHexLower(name[k])
    /\ name[6] = 46
    /\ \A k \in 7..38 : IsHexLower(name[k])

\* os.path.basename: what follows the last "/" (47)
Basename(path) ==
    LET slashes == {j \in 1..Len(path) : path[j] = 47}
        last == IF slashes = {} THEN 0
                ELSE CHOOSE j \in slashes : \A k \in slashes : k <= j
    IN  SubSeq(path, last + 1, Len(path))

\* str < str: codepoint by codepoint, a proper prefix first
RECURSIVE StrLessFrom(_, _, _)
StrLessFrom(a, b, i) ==
    IF i > Len(b) THEN FALSE
    ELSE IF i > Len(a) THEN TRUE
    ELSE IF a[i] # b[i] THEN a[i] < b[i]
    ELSE StrLessFrom(a, b, i + 1)

StrLess(a, b) == StrLessFrom(a, b, 1)

\* sorted(S) for a collection S of distinct strings
RECURSIVE Sorted(_)
Sorted(S) ==
    IF S = {} THEN <<>>
    ELSE LET m == CHOOSE x \in S : \A y \in S : x = y \/ StrLess(x, y)
         IN  <<m>> \o Sorted(S \ {m})

\* the listing without sorted(): os.listdir's order, here the descending one
ListEmailFilenamesUnsorted(entries) ==
    LET up == SelectSeq(Sorted({e.name : e \in entries}),
                        LAMBDA n : re_email_filename(Basename(n)))
    IN  [i \in 1..Len(up) |-> up[Len(up) + 1 - i]]

\* [filename for filename in sorted(os.listdir(folder))
\*  if filename_regex.match(os.path.basename(filename))]
ListEmailFilenames(entries) ==
    SelectSeq(Sorted({e.name : e \in entries}),
              LAMBDA n : re_email_filename(Basename(n)))

\* the folder lists of the two calls
HamFolders == <<"easy_ham", "easy_ham_2", "hard_ham">>
SpamFolders == <<"spam", "spam_2">>
FolderNames == {"easy_ham", "easy_ham_2", "hard_ham", "spam", "spam_2"}

\* the directory entry of that name in a folder: open() and
\* email.message_from_file give its structure and its payload
Entry(folder, file) == CHOOSE e \in fs[folder] : e.name = file

-----------------------------------------------------------------------------
(* Dictionary construction *)

Range(seq) == {seq[i] : i \in 1..Len(seq)}

\* itertools.chain(*emails)
RECURSIVE Chain(_)
Chain(collection) ==
    IF collection = <<>> THEN <<>>
    ELSE Head(collection) \o Chain(Tail(collection))

\* the set without the union with the spam words
VocabSetHamOnly(ham, spam) == Range(Chain(ham))

\* set(chain(*ham)).union(set(chain(*spam)))
VocabSet(ham, spam) == Range(Chain(ham)) \cup Range(Chain(spam))

\* the dictionary without sorted(): the set's own order, here the descending one
VocabDictUnsorted(vs) ==
    LET s == Sorted(vs)
    IN  [w \in vs |-> Len(s) - (CHOOSE i \in 1..Len(s) : s[i] = w)]

\* {word: index for index, word in enumerate(sorted(list(vocab_set)))}
VocabDict(vs) ==
    LET s == Sorted(vs)
    IN  [w \in vs |-> (CHOOSE i \in 1..Len(s) : s[i] = w) - 1]

-----------------------------------------------------------------------------
(* Inputs *)

MaxPieces == 2
MaxFiles == 2

\* the fragments a message body is put together from
Pieces ==
    { <<116, 104, 101, 32>>,                               \* "the "
      <<116, 104, 101, 115>>,                              \* "thes"
      <<44, 32, 67, 97, 116, 115>>,                        \* ", Cats"
      <<53, 53, 53>>,                                      \* "555"
      <<97, 95, 98>>,                                      \* "a_b"
      \* "abc123def456abc123def456abc123de"
      <<97, 98, 99, 49, 50, 51, 100, 101, 102, 52, 53, 54, 97, 98, 99, 49,
        50, 51, 100, 101, 102, 52, 53, 54, 97, 98, 99, 49, 50, 51, 100, 101>>,
      \* "01234567890123456789012345678901"
      <<48, 49, 50, 51, 52, 53, 54, 55, 56, 57, 48, 49, 50, 51, 52, 53,
        54, 55, 56, 57, 48, 49, 50, 51, 52, 53, 54, 55, 56, 57, 48, 49>>,
      \* "http://x.com/"
      <<104, 116, 116, 112, 58, 47, 47, 120, 46, 99, 111, 109, 47>>,
      <<105, 100, 64, 120, 46, 99, 111>>,                  \* "id@x.co"
      \* "internationalizations"
      <<105, 110, 116, 101, 114, 110, 97, 116, 105, 111, 110, 97, 108, 105,
        122, 97, 116, 105, 111, 110, 115>> }

\* the bodies: up to n pieces, one after the other
RECURSIVE BodiesOf(_)
BodiesOf(n) ==
    IF n = 0 THEN {<<>>}
    ELSE LET S == BodiesOf(n - 1)
         IN  S \cup {b \o p : b \in S, p \in Pieces}

\* the body of the end-to-end example:
\* "Hello, visit http://x.com now! Call 555 today."
ExampleBody ==
    <<72, 101, 108, 108, 111, 44, 32, 118, 105, 115, 105, 116, 32, 104,
      116, 116, 112, 58, 47, 47, 120, 46, 99, 111, 109, 32, 110, 111, 119,
      33, 32, 67, 97, 108, 108, 32, 53, 53, 53, 32, 116, 111, 100, 97,
      121, 46>>

Bodies == BodiesOf(MaxPieces) \cup {ExampleBody}

\* the directory entries the folders are filled from
FilePool ==
    { \* "00001.7c53336b37003a9286aba55d2945844c": "the"
      [name |-> <<48, 48, 48, 48, 49, 46, 55, 99, 53, 51, 51, 51, 54, 98, 51,
          55, 48, 48, 51, 97, 57, 50, 56, 54, 97, 98, 97, 53, 53, 100, 50, 57,
          52, 53, 56, 52, 52, 99>>,
       multipart |-> FALSE, payload |-> <<116, 104, 101>>],
      \* "00002.9c4069e25e1ef370c078db7ee85ff9ac": "a_b Cats and dogs"
      [name |-> <<48, 48, 48, 48, 50, 46, 57, 99, 52, 48, 54, 57, 101, 50, 53,
          101, 49, 101, 102, 51, 55, 48, 99, 48, 55, 56, 100, 98, 55, 101,
          101, 56, 53, 102, 102, 57, 97, 99>>,
       multipart |-> FALSE, payload |-> <<97, 95, 98, 32, 67, 97, 116, 115,
           32, 97, 110, 100, 32, 100, 111, 103, 115>>],
      \* "00003.860e3c3cee1b42ead714c5c874fe25f7", a multipart message
      [name |-> <<48, 48, 48, 48, 51, 46, 56, 54, 48, 101, 51, 99, 51, 99,
          101, 101, 49, 98, 52, 50, 101, 97, 100, 55, 49, 52, 99, 53, 99, 56,
          55, 52, 102, 101, 50, 53, 102, 55>>,
       multipart |-> TRUE, payload |-> <<>>],
      \* "00002.9c4069e25e1ef370c078db7ee85ff9ac.bak": "Buy 2"
      [name |-> <<48, 48, 48, 48, 50, 46, 57, 99, 52, 48, 54, 57, 101, 50, 53,
          101, 49, 101, 102, 51, 55, 48, 99, 48, 55, 56, 100, 98, 55, 101,
          101, 56, 53, 102, 102, 57, 97, 99, 46, 98, 97, 107>>,
       multipart |-> FALSE, payload |-> <<66, 117, 121, 32, 50>>],
      \* "cmds": "x"
      [name |-> <<99, 109, 100, 115>>, multipart |-> FALSE, payload |->
          <<120>>] }

\* the sets of up to n placements of an entry in a folder
RECURSIVE PlacementsOf(_)
PlacementsOf(n) ==
    IF n = 0 THEN {{}}
    ELSE LET S == PlacementsOf(n - 1)
         IN  S \cup {P \cup {<<e, d>>} : P \in S, e \in FilePool, d \in FolderNames}

\* the stopwords and stemmer of a direct call
WordsConfigs ==
    { <<{}, "identity">>, <<EnglishStopwords, "identity">>,
      <<EnglishStopwords, "plural">>, <<{}, "double">>,
      <<EnglishStopwords, "strict">> }

\* the stopwords and stemmer of a corpus run
Configs ==
    {<<EnglishStopwords, "plural">>, <<EnglishStopwords, "strict">>, <<{}, "identity">>}

NoVocab == [w \in {} |-> 0]

-----------------------------------------------------------------------------
(* A direct call of email_body_to_words *)

InitWords ==
    /\ \E c \in WordsConfigs : stopwords = c[1] /\ stemmer = c[2]
    /\ body \in Bodies
    /\ outcome = "pending"
    /\ words = <<>>
    /\ fs = [d \in FolderNames |-> {}]
    /\ pc = "call"
    /\ folder_idx = 0
    /\ email_filenames = <<>>
    /\ file_idx = 1
    /\ emails = <<>>
    /\ opened = <<>>
    /\ emails_tokenized_ham = <<>>
    /\ emails_tokenized_spam = <<>>
    /\ vocab_set = {}
    /\ vocab = NoVocab

corpus_vars == <<fs, pc, folder_idx, email_filenames, file_idx, emails, opened,
                 emails_tokenized_ham, emails_tokenized_spam, vocab_set, vocab>>

WordsReturn ==
    /\ pc = "call"
    /\ outcome = "pending"
    /\ ~WordsRaises(body, stopwords, stemmer)
    /\ words' = email_body_to_words(body, stopwords, stemmer)
    /\ outcome' = "returned"
    /\ UNCHANGED <<stopwords, stemmer, body, corpus_vars>>

WordsRaise ==
    /\ pc = "call"
    /\ outcome = "pending"
    /\ WordsRaises(body, stopwords, stemmer)
    /\ outcome' = "raised"
    /\ UNCHANGED <<stopwords, stemmer, body, words, corpus_vars>>

NextWords == WordsReturn \/ WordsRaise

SpecWords == InitWords /\ [][NextWords]_vars

-----------------------------------------------------------------------------
(* The notebook run: both corpus walks, then the dictionary *)

Init ==
    /\ \E c \in Configs : stopwords = c[1] /\ stemmer = c[2]
    /\ \E P \in PlacementsOf(MaxFiles) :
          fs = [d \in FolderNames |-> {pl[1] : pl \in {q \in P : q[2] = d}}]
    /\ body = <<>>
    /\ outcome = "none"
    /\ words = <<>>
    /\ pc = "ham"
    /\ folder_idx = 0
    /\ email_filenames = <<>>
    /\ file_idx = 1
    /\ emails = <<>>
    /\ opened = <<>>
    /\ emails_tokenized_ham = <<>>
    /\ emails_tokenized_spam = <<>>
    /\ vocab_set = {}
    /\ vocab = NoVocab

call_vars == <<stopwords, stemmer, body, outcome, words, fs>>

\* the folders argument of the call in progress
Folders == IF pc = "ham" THEN HamFolders ELSE SpamFolders

Walking == pc \in {"ham", "spam"}

\* for folder in folders: list the next folder
ListFolder ==
    /\ Walking
    /\ file_idx > Len(email_filenames)
    /\ folder_idx < Len(Folders)
    /\ folder_idx' = folder_idx + 1
    /\ email_filenames' = ListEmailFilenames(fs[Folders[folder_idx + 1]])
    /\ file_idx' = 1
    /\ UNCHANGED <<call_vars, pc, emails, opened, emails_tokenized_ham,
                   emails_tokenized_spam, vocab_set, vocab>>

\* the file the inner loop is at
AtFile == Walking /\ file_idx <= Len(email_filenames)
CurrentFolder == Folders[folder_idx]
CurrentFile == email_filenames[file_idx]
CurrentEntry == Entry(CurrentFolder, CurrentFile)

\* if not msg.is_multipart(): is false
SkipMultipart ==
    /\ AtFile
    /\ CurrentEntry.multipart
    /\ opened' = Append(opened, <<CurrentFolder, CurrentFile>>)
    /\ file_idx' = file_idx + 1
    /\ UNCHANGED <<call_vars, pc, folder_idx, email_filenames, emails,
                   emails_tokenized_ham, emails_tokenized_spam, vocab_set, vocab>>

\* body = msg.get_payload(); words = email_body_to_words(...); emails.append(words)
AppendWords ==
    /\ AtFile
    /\ ~CurrentEntry.multipart
    /\ ~WordsRaises(CurrentEntry.payload, stopwords, stemmer)
    /\ opened' = Append(opened, <<CurrentFolder, CurrentFile>>)
    /\ emails' = Append(emails,
                        email_body_to_words(CurrentEntry.payload, stopwords, stemmer))
    /\ file_idx' = file_idx + 1
    /\ UNCHANGED <<call_vars, pc, folder_idx, email_filenames,
                   emails_tokenized_ham, emails_tokenized_spam, vocab_set, vocab>>

\* the failure caught and the message skipped, the walk going on
StemmerRaisesSwallowed ==
    /\ AtFile
    /\ ~CurrentEntry.multipart
    /\ WordsRaises(CurrentEntry.payload, stopwords, stemmer)
    /\ opened' = Append(opened, <<CurrentFolder, CurrentFile>>)
    /\ file_idx' = file_idx + 1
    /\ UNCHANGED <<call_vars, pc, folder_idx, email_filenames, emails,
                   emails_tokenized_ham, emails_tokenized_spam, vocab_set, vocab>>

\* email_body_to_words raises: nothing catches it, the cell and the run end
StemmerRaises ==
    /\ AtFile
    /\ ~CurrentEntry.multipart
    /\ WordsRaises(CurrentEntry.payload, stopwords, stemmer)
    /\ opened' = Append(opened, <<CurrentFolder, CurrentFile>>)
    /\ pc' = "raised"
    /\ UNCHANGED <<call_vars, folder_idx, email_filenames, file_idx, emails,
                   emails_tokenized_ham, emails_tokenized_spam, vocab_set, vocab>>

\* return emails, assigned by the calling cell
ReturnEmails ==
    /\ Walking
    /\ file_idx > Len(email_filenames)
    /\ folder_idx = Len(Folders)
    /\ IF pc = "ham"
       THEN /\ emails_tokenized_ham' = emails
            /\ pc' = "spam"
            /\ UNCHANGED emails_tokenized_spam
       ELSE /\ emails_tokenized_spam' = emails
            /\ pc' = "vocab_set"
            /\ UNCHANGED emails_tokenized_ham
    /\ folder_idx' = 0
    /\ email_filenames' = <<>>
    /\ file_idx' = 1
    /\ emails' = <<>>
    /\ opened' = <<>>
    /\ UNCHANGED <<call_vars, vocab_set, vocab>>

BuildVocabSet ==
    /\ pc = "vocab_set"
    /\ vocab_set' = VocabSet(emails_tokenized_ham, emails_tokenized_spam)
    /\ pc' = "vocab"
    /\ UNCHANGED <<call_vars, folder_idx, email_filenames, file_idx, emails, opened,
                   emails_tokenized_ham, emails_tokenized_spam, vocab>>

BuildVocab ==
    /\ pc = "vocab"
    /\ vocab' = VocabDict(vocab_set)
    /\ pc' = "done"
    /\ UNCHANGED <<call_vars, folder_idx, email_filenames, file_idx, emails, opened,
                   emails_tokenized_ham, emails_tokenized_spam, vocab_set>>

Next ==
    \/ ListFolder
    \/ SkipMultipart
    \/ AppendWords
    \/ StemmerRaises
    \/ ReturnEmails
    \/ BuildVocabSet
    \/ BuildVocab

Spec == Init /\ [][Next]_vars

-----------------------------------------------------------------------------
(* Properties of email_body_to_words, checked under SpecWords *)

HasDigit(word) == \E i \in 1..Len(word) : IsDigit(word[i])

\* C1: every token of the returned sequence has length at most 20, holds
\* no underscore and holds no digit, whatever the body, the stopwords and the
\* stemmer.
C1_TokenShape ==
    outcome = "returned" =>
        \A i \in 1..Len(words) :
            /\ Len(words[i]) <= 20
            /\ ~HasUnderscore(words[i])
            /\ ~HasDigit(words[i])

\* a call that returned tokens and whose filter dropped a stem longer than 20
C1_Witness ==
    /\ outcome = "returned"
    /\ words # <<>>
    /\ \E w \in Range(StemRemaining(CandidateWords(body), stopwords, stemmer)) :
          Len(w) > 20

\* C2: the returned sequence is, in the original order and with repeats
\* kept, the stems of exactly those candidate words that are not stopwords
\* and whose stem passes the length/underscore/digit filter.
C2_OrderPreserved ==
    outcome = "returned" =>
        LET cand == CandidateWords(body)
            kept == {i \in 1..Len(cand) :
                        /\ cand[i] \notin stopwords
                        /\ Len(stem(stemmer, cand[i])) <= 20
                        /\ ~HasUnderscore(stem(stemmer, cand[i]))
                        /\ ~HasDigit(stem(stemmer, cand[i]))}
        IN  /\ Len(words) = Cardinality(kept)
            /\ \A i \in kept :
                  words[Cardinality({j \in kept : j <= i})] = stem(stemmer, cand[i])

\* a call that returned the same token twice in a row
C2_Witness ==
    /\ outcome = "returned"
    /\ Len(words) >= 2
    /\ words[1] = words[2]

\* C3 as stated: no returned token is a member of the stopword set.
C3_NoStopwordToken ==
    outcome = "returned" => \A i \in 1..Len(words) : words[i] \notin stopwords

\* C3, amended: stopwords are removed by their form before stemming: every
\* returned token is the stem of a candidate word that is not a stopword, and
\* there are no more tokens than such candidate words.
C3_StopwordsRemovedBeforeStemming ==
    outcome = "returned" =>
        LET cand == CandidateWords(body)
            rest == {j \in 1..Len(cand) : cand[j] \notin stopwords}
        IN  /\ Len(words) <= Cardinality(rest)
            /\ \A i \in 1..Len(words) :
                  \E j \in rest : words[i] = stem(stemmer, cand[j])

\* a call where a candidate word was a stopword and was removed, and where a
\* returned token nevertheless equals a stopword
C3_Witness ==
    /\ outcome = "returned"
    /\ \E w \in Range(CandidateWords(body)) : w \in stopwords
    /\ \E i \in 1..Len(words) : words[i] \in stopwords

IsExampleCall == body = ExampleBody /\ stopwords = {} /\ stemmer = "identity"

\* C4 as stated: the example body gives
\* ["hello", "visit", "httpaddress", "now", "call", "number", "today"].
C4_ExampleLowerCaseMarkers ==
    (IsExampleCall /\ outcome # "pending") =>
        /\ outcome = "returned"
        /\ words = << <<104, 101, 108, 108, 111>>, <<118, 105, 115, 105, 116>>,
                      <<104, 116, 116, 112, 97, 100, 100, 114, 101, 115, 115>>,
                      <<110, 111, 119>>, <<99, 97, 108, 108>>,
                      <<110, 117, 109, 98, 101, 114>>,
                      <<116, 111, 100, 97, 121>> >>

\* C4, amended: the example body gives
\* ["hello", "visit", "HTTPADDRESS", "now", "call", "NUMBER", "today"]: the
\* markers stay in upper case as substituted.
C4_ExampleUpperCaseMarkers ==
    (IsExampleCall /\ outcome # "pending") =>
        /\ outcome = "returned"
        /\ words = << <<104, 101, 108, 108, 111>>, <<118, 105, 115, 105, 116>>,
                      HTTPADDRESS,
                      <<110, 111, 119>>, <<99, 97, 108, 108>>,
                      NUMBER,
                      <<116, 111, 100, 97, 121>> >>

\* the example call has returned
C4_Witness == IsExampleCall /\ outcome = "returned"

\* a maximal run of exactly 32 lower-case hex characters of t starts at i
HexRunOf32At(t, i) ==
    /\ i + 31 <= Len(t)
    /\ \A k \in i..(i + 31) : IsHexLower(t[k])
    /\ i = 1 \/ ~IsHexLower(t[i - 1])
    /\ i + 32 > Len(t) \/ ~IsHexLower(t[i + 32])

HexRunsOf32(t) == {i \in 1..Len(t) : HexRunOf32At(t, i)}

\* the text after the number substitution
AfterNumbers(b) == HashesThenNumbers(AfterAddresses(b))

\* C5 as stated: every run of exactly 32 lower-case hex characters of the
\* lower-cased body is replaced by the marker HASH; so the text after the
\* number substitution holds at least one HASH for each such run.
C5_EveryRunOfBodyReplaced ==
    outcome # "pending" =>
        Cardinality({i \in 1..Len(AfterNumbers(body)) :
                        HasAt(AfterNumbers(body), i, HASH)})
            >= Cardinality(HexRunsOf32(Lower(body)))

\* C5, amended: every run of exactly 32 lower-case hex characters of the text
\* as it stands after the URL and e-mail substitutions is replaced by the
\* single marker HASH, none of it becoming NUMBER: the text after the number
\* substitution is what the two substitutions make of the text before the
\* run, then HASH, then what they make of the text after the run.
C5_HashBeforeNumber ==
    outcome # "pending" =>
        LET t == AfterAddresses(body)
        IN  \A i \in HexRunsOf32(t) :
                HashesThenNumbers(t) =
                    HashesThenNumbers(SubSeq(t, 1, i - 1)) \o HASH
                        \o HashesThenNumbers(SubSeq(t, i + 32, Len(t)))

\* a call whose text holds, after other text, a run of 32 decimal digits
C5_Witness ==
    /\ outcome = "returned"
    /\ \E i \in HexRunsOf32(AfterAddresses(body)) :
          /\ i > 1
          /\ \A k \in i..(i + 31) : IsDigit(AfterAddresses(body)[k])

-----------------------------------------------------------------------------
(* Properties of the corpus walk and the dictionary, checked under Spec *)

\* the tokens of a collection of token sequences
TokensOf(collection) == UNION {Range(collection[m]) : m \in 1..Len(collection)}

\* C6: once built, the vocabulary's keys are exactly the distinct tokens of
\* the ham and spam collections, each key's value is its zero-based rank in
\* ascending codepoint order among them, the values are exactly 0..N-1 with
\* none shared, and no tokens give an empty mapping.
C6_VocabRanks ==
    pc = "done" =>
        LET tokens == TokensOf(emails_tokenized_ham) \cup TokensOf(emails_tokenized_spam)
        IN  /\ DOMAIN vocab = tokens
            /\ \A w \in tokens :
                  vocab[w] = Cardinality({v \in tokens : StrLess(v, w)})
            /\ {vocab[w] : w \in tokens} = 0..(Cardinality(tokens) - 1)
            /\ \A v, w \in tokens : vocab[v] = vocab[w] => v = w
            /\ tokens = {} => vocab = NoVocab

\* a vocabulary of at least three tokens, one of them met in spam only
C6_Witness ==
    /\ pc = "done"
    /\ Cardinality(DOMAIN vocab) >= 3
    /\ TokensOf(emails_tokenized_spam) \ TokensOf(emails_tokenized_ham) # {}
    /\ TokensOf(emails_tokenized_ham) # {}

\* the rearrangements of a sequence
SeqPerms(seq) ==
    {[i \in 1..Len(seq) |-> seq[f[i]]] :
        f \in {g \in [1..Len(seq) -> 1..Len(seq)] :
                  \A i, j \in 1..Len(seq) : g[i] = g[j] => i = j}}

\* a collection with the tokens of one of its sequences rearranged
TokenShuffles(collection) ==
    UNION {{[collection EXCEPT ![m] = q] : q \in SeqPerms(collection[m])} :
              m \in 1..Len(collection)}

\* C7: the vocabulary does not depend on processing order: with the messages
\* of a collection rearranged, the tokens of a sequence rearranged, or ham and
\* spam swapped, the two cells give the mapping they gave.
C7_VocabOrderIndependent ==
    pc = "done" =>
        LET ham == emails_tokenized_ham
            spam == emails_tokenized_spam
        IN  /\ \A h \in SeqPerms(ham), sp \in SeqPerms(spam) :
                  VocabDict(VocabSet(h, sp)) = vocab
            /\ \A h \in TokenShuffles(ham) : VocabDict(VocabSet(h, spam)) = vocab
            /\ \A sp \in TokenShuffles(spam) : VocabDict(VocabSet(ham, sp)) = vocab
            /\ VocabDict(VocabSet(spam, ham)) = vocab

\* a vocabulary built from ham and spam collections with different tokens,
\* one sequence holding two different tokens
C7_Witness ==
    /\ pc = "done"
    /\ TokensOf(emails_tokenized_ham) # {}
    /\ TokensOf(emails_tokenized_spam) # {}
    /\ TokensOf(emails_tokenized_ham) # TokensOf(emails_tokenized_spam)
    /\ \E m \in 1..Len(emails_tokenized_ham) :
          Cardinality(Range(emails_tokenized_ham[m])) >= 2

\* the single-part messages that the walk finds in a folder
SinglePart(d) == {e \in fs[d] : re_email_filename(e.name) /\ ~e.multipart}

\* how many of them lie in the folders before the k-th
RECURSIVE SinglePartBefore(_, _)
SinglePartBefore(folders, k) ==
    IF k <= 1 THEN 0
    ELSE SinglePartBefore(folders, k - 1) + Cardinality(SinglePart(folders[k - 1]))

\* result holds one sequence for each single-part message found in folders,
\* in folder order and, within a folder, in ascending order of file name
OneSequencePerMessage(folders, result) ==
    /\ Len(result) = SinglePartBefore(folders, Len(folders) + 1)
    /\ \A k \in 1..Len(folders) :
          \A e \in SinglePart(folders[k]) :
              result[SinglePartBefore(folders, k) + 1
                     + Cardinality({o \in SinglePart(folders[k]) : StrLess(o.name, e.name)})]
                  = email_body_to_words(e.payload, stopwords, stemmer)

\* C8: the returned collection holds exactly one token sequence for each
\* single-part message found (an empty one too) and none for a multipart
\* message, in discovery order: folders as given, file names ascending.
C8_OneSequencePerMessage ==
    /\ pc \in {"spam", "vocab_set", "vocab", "done"} =>
          OneSequencePerMessage(HamFolders, emails_tokenized_ham)
    /\ pc \in {"vocab_set", "vocab", "done"} =>
          OneSequencePerMessage(SpamFolders, emails_tokenized_spam)

\* the ham walk returned two sequences, one of them empty, for two messages
\* of one folder
C8_Witness ==
    /\ pc = "spam"
    /\ Len(emails_tokenized_ham) = 2
    /\ <<>> \in Range(emails_tokenized_ham)
    /\ emails_tokenized_ham[1] # emails_tokenized_ham[2]
    /\ \E k \in 1..Len(HamFolders) : Cardinality(SinglePart(HamFolders[k])) = 2

\* the whole name is 5 hex digits, a dot and 32 hex digits
IsMessageName(name) ==
    /\ Len(name) = 38
    /\ \A k \in 1..5 : IsHexLower(name[k])
    /\ name[6] = 46
    /\ \A k \in 7..38 : IsHexLower(name[k])

\* C9: a file is processed if and only if its whole name, anchored at both
\* ends, is 5 hex digits, a dot and 32 hex digits: every file opened has
\* such a name, and every entry of a listed folder with such a name is in
\* the list.
C9_WholeNameMatches ==
    /\ \A i \in 1..Len(opened) : IsMessageName(opened[i][2])
    /\ (Walking /\ folder_idx >= 1) =>
          \A e \in fs[Folders[folder_idx]] :
              IsMessageName(e.name) <=> e.name \in Range(email_filenames)

\* the files opened before the last one that were not multipart
AppendedBeforeLast ==
    {i \in 1..(Len(opened) - 1) : ~Entry(opened[i][1], opened[i][2]).multipart}

\* C10: a failure of the stemmer on a word of a message is fatal and
\* surfaces: no sequence is appended for the message, nothing of the call is
\* returned, and the run does not go on; no message the stemmer fails on is
\* ever passed over.
C10_StemmerFailureSurfaces ==
    /\ \A i \in 1..Len(opened) :
          LET e == Entry(opened[i][1], opened[i][2])
          IN  (~e.multipart /\ WordsRaises(e.payload, stopwords, stemmer)) =>
                  (pc = "raised" /\ i = Len(opened))
    /\ pc = "raised" =>
          /\ Len(emails) = Cardinality(AppendedBeforeLast)
          /\ emails_tokenized_spam = <<>>
          /\ vocab_set = {}
          /\ vocab = NoVocab
          /\ ~ENABLED Next

\* the stemmer failed on a message after another message had been tokenized
C10_Witness ==
    /\ pc = "raised"
    /\ Len(opened) >= 2
    /\ Len(emails) >= 1

=============================================================================
